---- MODULE Spec2Model ----
(***************************************************************************)
(* Model of the file-management blueprint of src/files.py: the handlers    *)
(* upload, delete_file and rename_file acting on the Metadata Store (the  *)
(* tables Materia, Curso, Archivo) and on the Blob Store (the directory   *)
(* UPLOAD_FOLDER).  A text is a sequence of one-character strings.        *)
(***************************************************************************)
EXTENDS Integers, Sequences, FiniteSets, TLC

VARIABLES blobs, materias, cursos, archivos, now, resp, reqs

vars == <<blobs, materias, cursos, archivos, now, resp, reqs>>

\* Number of readings of the clock (datetime.utcnow) a run may make.
MaxTime == 2

\* The ids of the teachers the authentication collaborator can give as
\* current_user.
Docentes == {1, 2}

\* A form field or JSON key that the request does not carry (Python None).
None == <<"<None>">>

\* ---------------------------------------------------------------- texts

Last(s) == s[Len(s)]

Front(s) == SubSeq(s, 1, Len(s) - 1)

RECURSIVE MapSeq(_, _, _)
\* s with every character equal to from replaced by to (str.replace)
MapSeq(s, from, to) ==
    IF s = <<>> THEN <<>>
    ELSE <<IF Head(s) = from THEN to ELSE Head(s)>> \o MapSeq(Tail(s), from, to)

RECURSIVE LStrip(_, _)
LStrip(s, chars) ==
    IF s # <<>> /\ Head(s) \in chars THEN LStrip(Tail(s), chars) ELSE s

RECURSIVE RStrip(_, _)
RStrip(s, chars) ==
    IF s # <<>> /\ Last(s) \in chars THEN RStrip(Front(s), chars) ELSE s

\* str.strip(chars)
StripChars(s, chars) == RStrip(LStrip(s, chars), chars)

Whitespace == {" "}

\* str.strip()
strip(s) == StripChars(s, Whitespace)

RECURSIVE SplitJoin(_)
\* "_".join(s.split()): a run of whitespace between two words becomes one
\* "_", whitespace at the ends disappears.
SplitJoin(s) ==
    IF s = <<>> THEN <<>>
    ELSE IF Head(s) \in Whitespace THEN SplitJoin(Tail(s))
    ELSE LET rest == Tail(s)
             sep  == rest # <<>> /\ Head(rest) \in Whitespace
                       /\ LStrip(rest, Whitespace) # <<>>
         IN  <<Head(s)>> \o (IF sep THEN <<"_">> ELSE <<>>) \o SplitJoin(rest)

\* The characters werkzeug keeps: [A-Za-z0-9_.-]
FilenameChars == {"a", "b", "c", "p", "d", "f", "P", "D", "F", "_", ".", "-"}

RECURSIVE KeepOnly(_, _)
KeepOnly(s, chars) ==
    IF s = <<>> THEN <<>>
    ELSE (IF Head(s) \in chars THEN <<Head(s)>> ELSE <<>>) \o KeepOnly(Tail(s), chars)

\* werkzeug.utils.secure_filename: path separators become spaces, the words
\* are joined with "_", every other character is dropped, and leading and
\* trailing "." and "_" are stripped.
secure_filename(s) ==
    StripChars(KeepOnly(SplitJoin(MapSeq(s, "/", " ")), FilenameChars),
               {".", "_"})

LowerChar(c) ==
    CASE c = "P" -> "p" [] c = "D" -> "d" [] c = "F" -> "f"
      [] c = "A" -> "a" [] c = "M" -> "m" [] OTHER -> c

\* str.lower()
lower(s) == [i \in 1..Len(s) |-> LowerChar(s[i])]

\* str.endswith(suffix)
endswith(s, suffix) ==
    /\ Len(s) >= Len(suffix)
    /\ SubSeq(s, Len(s) - Len(suffix) + 1, Len(s)) = suffix

PdfExt == <<".", "p", "d", "f">>

\* SQL LIKE: "%" stands for any run of characters, "_" for any one
\* character, every other character for itself.
RECURSIVE like(_, _)
like(s, pattern) ==
    IF pattern = <<>> THEN s = <<>>
    ELSE IF Head(pattern) = "%"
    THEN like(s, Tail(pattern)) \/ (s # <<>> /\ like(Tail(s), pattern))
    ELSE IF s = <<>> THEN FALSE
    ELSE /\ Head(pattern) = "_" \/ Head(pattern) = Head(s)
         /\ like(Tail(s), Tail(pattern))

\* ColumnOperators.ilike: LIKE on the lowered column and the lowered pattern
ilike(s, pattern) == like(lower(s), lower(pattern))

\* ------------------------------------------------------- the two stores

\* The Blob Store is a function from the names of the files in UPLOAD_FOLDER
\* to their bytes.
NoBlobs == [f \in {} |-> <<>>]

\* os.path.exists(os.path.join(UPLOAD_FOLDER, f)) for a file name f
exists(bl, f) == f \in DOMAIN bl

\* file.save that leaves a file already there as it is
FileSave_KeepExisting(bl, f, content) ==
    [g \in DOMAIN bl \cup {f} |-> IF g \in DOMAIN bl THEN bl[g] ELSE content]

\* file.save(filepath): creates the file or overwrites it
FileSave(bl, f, content) ==
    [g \in DOMAIN bl \cup {f} |-> IF g = f THEN content ELSE bl[g]]

\* os.remove(filepath)
remove(bl, f) == [g \in DOMAIN bl \ {f} |-> bl[g]]

\* os.rename(old_path, new_path)
rename(bl, old, new) ==
    [g \in (DOMAIN bl \ {old}) \cup {new} |-> IF g = new THEN bl[old] ELSE bl[g]]

\* What Query.first() gives when no row matches.
NoRow == [id |-> 0]

\* Query.first(): the matching row of least primary key
first(rows) ==
    IF rows = {} THEN NoRow
    ELSE CHOOSE r \in rows : \A q \in rows : r.id <= q.id

\* The primary key the store gives the next row of a table.
NextId(rows) ==
    IF rows = {} THEN 1
    ELSE 1 + (CHOOSE n \in {r.id : r \in rows} : \A r \in rows : r.id <= n)

\* ------------------------------------------------------------- upload

\* The places of upload's try block where the Metadata Store or the Blob
\* Store can raise; "none" when no step raises.
UploadFailPoints ==
    {"none", "materia_query", "materia_flush", "curso_query", "curso_flush",
     "save", "archivo_query", "commit"}

\* `not file or file.filename == ''`: no file part, or one with no name
FileMissing(file) == ~file.present \/ file.filename = <<>>

\* `not nombre_materia_raw or not periodo_raw`, tested before the strip
FieldsMissing(materia_raw, periodo_raw) ==
    materia_raw \in {None, <<>>} \/ periodo_raw \in {None, <<>>}

\* Materia.query.filter_by(nombre=...).first()
MateriaQuery(ma, nombre) == first({m \in ma : m.nombre = nombre})

\* 3.1: the Materia found, or a new one added to the session
ResolveMateria(ma, nombre) ==
    IF MateriaQuery(ma, nombre).id # 0 THEN MateriaQuery(ma, nombre)
    ELSE [id |-> NextId(ma), nombre |-> nombre]

\* Curso.query.filter_by(docente_id, materia_id, periodo).first()
CursoQuery(cu, user, materia_id, periodo) ==
    first({c \in cu : /\ c.docente_id = user
                      /\ c.materia_id = materia_id
                      /\ c.periodo = periodo})

\* A course resolution that never reuses a row
ResolveCurso_AlwaysNew(cu, user, materia_id, periodo) ==
    [id |-> NextId(cu), docente_id |-> user,
     materia_id |-> materia_id, periodo |-> periodo]

\* 3.2: the Curso found, or a new one added to the session
ResolveCurso(cu, user, materia_id, periodo) ==
    IF CursoQuery(cu, user, materia_id, periodo).id # 0
    THEN CursoQuery(cu, user, materia_id, periodo)
    ELSE [id |-> NextId(cu), docente_id |-> user,
          materia_id |-> materia_id, periodo |-> periodo]

\* Archivo.query.filter_by(nombre=filename).first()
ArchivoQuery(ar, filename) == first({a \in ar : a.nombre = filename})

\* A registration that refreshes the existing row but for its teacher
RegisterArchivo_KeepOwner(ar, filename, user, curso_id, t) ==
    IF first({a \in ar : a.nombre = filename}).id # 0
    THEN (ar \ {first({a \in ar : a.nombre = filename})})
         \cup {[first({a \in ar : a.nombre = filename})
                  EXCEPT !.fecha_subida = t, !.curso_id = curso_id]}
    ELSE ar \cup {[id |-> NextId(ar), nombre |-> filename, fecha_subida |-> t,
                   docente_id |-> user, curso_id |-> curso_id]}

\* 5: the Archivo table after the existing row is refreshed, or a new row
\* is added
RegisterArchivo(ar, filename, user, curso_id, t) ==
    IF ArchivoQuery(ar, filename).id # 0
    THEN (ar \ {ArchivoQuery(ar, filename)})
         \cup {[ArchivoQuery(ar, filename) EXCEPT !.fecha_subida = t,
                                                   !.docente_id = user,
                                                   !.curso_id = curso_id]}
    ELSE ar \cup {[id |-> NextId(ar), nombre |-> filename, fecha_subida |-> t,
                   docente_id |-> user, curso_id |-> curso_id]}

\* The step at which upload's try block raises: the injected failure if the
\* run reaches its step, and file.save itself when the sanitized name is
\* empty (filepath is then the directory).
UploadFailedAt(ma, cu, user, nombre_materia, periodo, filename, failAt) ==
    LET newMateria == MateriaQuery(ma, nombre_materia).id = 0
        materia    == ResolveMateria(ma, nombre_materia)
        newCurso   == CursoQuery(cu, user, materia.id, periodo).id = 0
    IN  IF failAt = "materia_query" THEN failAt
        ELSE IF failAt = "materia_flush" /\ newMateria THEN failAt
        ELSE IF failAt = "curso_query" THEN failAt
        ELSE IF failAt = "curso_flush" /\ newCurso THEN failAt
        ELSE IF filename = <<>> THEN "save"
        ELSE IF failAt \in {"save", "archivo_query", "commit"} THEN failAt
        ELSE "none"

\* An except branch that leaves the blob on disk
UploadCleanup_Nothing(bl, filename) == bl

\* The except branches: `if os.path.exists(filepath): os.remove(filepath)`,
\* whichever step raised.  With an empty sanitized name filepath is the
\* directory: os.remove raises and the folder is left as it is.
UploadCleanup(bl, filename) ==
    IF exists(bl, filename) THEN remove(bl, filename) ELSE bl

\* The handler upload as a whole: the stores and the response it leaves.
upload(user, file, materia_raw, periodo_raw, failAt) ==
    LET Unchanged(status, filename, failed) ==
            [blobs |-> blobs, materias |-> materias, cursos |-> cursos,
             archivos |-> archivos, now |-> now,
             resp |-> [op |-> "upload", status |-> status, user |-> user,
                       file |-> file, materia_raw |-> materia_raw,
                       periodo_raw |-> periodo_raw, filename |-> filename,
                       failed |-> failed, written |-> FALSE,
                       existed |-> FALSE, curso_id |-> 0]]
    IN
    IF FileMissing(file) THEN Unchanged(400, <<>>, "none")
    ELSE IF FieldsMissing(materia_raw, periodo_raw) THEN Unchanged(400, <<>>, "none")
    ELSE
    LET nombre_materia == strip(materia_raw)
        periodo  == strip(periodo_raw)
        filename == secure_filename(file.filename)
        materia  == ResolveMateria(materias, nombre_materia)
        curso    == ResolveCurso(cursos, user, materia.id, periodo)
        failed   == UploadFailedAt(materias, cursos, user, nombre_materia,
                                   periodo, filename, failAt)
        written  == failed \in {"none", "archivo_query", "commit"}
        saved    == IF written \/ (failed = "save" /\ filename # <<>>)
                    THEN FileSave(blobs, filename, file.content) ELSE blobs
        existed  == failed \in {"none", "commit"}
                      /\ ArchivoQuery(archivos, filename).id # 0
        clock    == IF failed \in {"none", "commit"} THEN now + 1 ELSE now
    IN  IF failed = "none"
        THEN [blobs |-> saved,
              materias |-> materias \cup {materia},
              cursos |-> cursos \cup {curso},
              archivos |-> RegisterArchivo(archivos, filename, user, curso.id, now),
              now |-> clock,
              resp |-> [op |-> "upload", status |-> 200, user |-> user,
                        file |-> file, materia_raw |-> materia_raw,
                        periodo_raw |-> periodo_raw, filename |-> filename,
                        failed |-> failed, written |-> written,
                        existed |-> existed, curso_id |-> curso.id]]
        ELSE [blobs |-> UploadCleanup(saved, filename),
              materias |-> materias, cursos |-> cursos, archivos |-> archivos,
              now |-> clock,
              resp |-> [op |-> "upload", status |-> 500, user |-> user,
                        file |-> file, materia_raw |-> materia_raw,
                        periodo_raw |-> periodo_raw, filename |-> filename,
                        failed |-> failed, written |-> written,
                        existed |-> existed, curso_id |-> 0]]

\* -------------------------------------------------------- delete_file

\* The places of delete_file where the Metadata Store can raise.  Nothing
\* catches the exception: the request ends 500 and the session is discarded.
DeleteFailPoints == {"none", "archivo_query", "commit"}

\* A delete that leaves the row
DeleteArchivo_Keep(ar, filename) == ar

\* 1: the Archivo table once the row found, if any, is deleted and committed
DeleteArchivo(ar, filename) ==
    IF ArchivoQuery(ar, filename).id # 0
    THEN ar \ {ArchivoQuery(ar, filename)} ELSE ar

\* A delete that reports full success whatever it finds on disk
DeleteStatus_Always200(bl, filename) == 200

\* 2: the status delete_file returns, from what it finds on disk
DeleteStatus(bl, filename) == IF exists(bl, filename) THEN 200 ELSE 202

\* The handler delete_file as a whole.
delete_file(filename, failAt) ==
    LET hadRecord == ArchivoQuery(archivos, filename).id # 0
        failed == IF failAt = "archivo_query" THEN failAt
                  ELSE IF failAt = "commit" /\ hadRecord THEN failAt
                  ELSE "none"
    IN  IF failed # "none"
        THEN [blobs |-> blobs, archivos |-> archivos,
              resp |-> [op |-> "delete", status |-> 500, filename |-> filename,
                        failed |-> failed, hadRecord |-> hadRecord,
                        hadBlob |-> exists(blobs, filename)]]
        ELSE [blobs |-> IF exists(blobs, filename) THEN remove(blobs, filename)
                        ELSE blobs,
              archivos |-> DeleteArchivo(archivos, filename),
              resp |-> [op |-> "delete", status |-> DeleteStatus(blobs, filename),
                        filename |-> filename, failed |-> failed,
                        hadRecord |-> hadRecord,
                        hadBlob |-> exists(blobs, filename)]]

\* -------------------------------------------------------- rename_file

\* The places of rename_file where a store can raise: the two lookups (not
\* caught: the request ends 500), os.rename (caught, 500) and the commit
\* (caught: rollback and rename back, 500).
RenameFailPoints ==
    {"none", "archivo_query", "archivo_query_new", "os_rename", "commit"}

\* `not old_name or not new_name_raw`
NamesMissing(old_name, new_name_raw) ==
    old_name \in {None, <<>>} \/ new_name_raw \in {None, <<>>}

\* A final name that always gets the extension
FinalNewName_AlwaysAppend(new_name_raw) ==
    StripChars(KeepOnly(SplitJoin(MapSeq(new_name_raw, "/", " ")), FilenameChars),
               {".", "_"}) \o PdfExt

\* final_new_name: the sanitized new name, with ".pdf" appended unless it
\* ends with it in any case
FinalNewName(new_name_raw) ==
    IF ~endswith(lower(secure_filename(new_name_raw)), PdfExt)
    THEN secure_filename(new_name_raw) \o PdfExt
    ELSE secure_filename(new_name_raw)

\* Preconditions that do not look for a blob under the new name
RenamePrecondition_NoDiskCheck(bl, ar, old_name, final_new_name) ==
    IF ~exists(bl, old_name) THEN "old_blob_missing"
    ELSE IF first({a \in ar : a.nombre = old_name}).id = 0 THEN "old_record_missing"
    ELSE IF first({a \in ar : a.nombre = final_new_name}).id # 0
    THEN "new_record_exists"
    ELSE "ok"

\* Preconditions that look into the Metadata Store before the Blob Store
RenamePrecondition_MetadataFirst(bl, ar, old_name, final_new_name) ==
    IF first({a \in ar : a.nombre = old_name}).id = 0 THEN "old_record_missing"
    ELSE IF first({a \in ar : a.nombre = final_new_name}).id # 0
    THEN "new_record_exists"
    ELSE IF ~exists(bl, old_name) THEN "old_blob_missing"
    ELSE IF exists(bl, final_new_name) THEN "new_blob_exists"
    ELSE "ok"

\* The first precondition of rename_file that fails, in the order of the
\* code, or "ok".
RenamePrecondition(bl, ar, old_name, final_new_name) ==
    IF ~exists(bl, old_name) THEN "old_blob_missing"
    ELSE IF exists(bl, final_new_name) THEN "new_blob_exists"
    ELSE IF ArchivoQuery(ar, old_name).id = 0 THEN "old_record_missing"
    ELSE IF ArchivoQuery(ar, final_new_name).id # 0 THEN "new_record_exists"
    ELSE "ok"

\* The status of each outcome of the preconditions.
RenameStatusOf(reason) ==
    CASE reason = "old_blob_missing"   -> 404
      [] reason = "new_blob_exists"    -> 400
      [] reason = "old_record_missing" -> 404
      [] reason = "new_record_exists"  -> 400
      [] OTHER                         -> 200

\* A rename whose metadata update is lost
RenameArchivo_Keep(ar, old_name, final_new_name) == ar

\* 3: archivo_db.nombre = final_new_name, committed
RenameArchivo(ar, old_name, final_new_name) ==
    (ar \ {ArchivoQuery(ar, old_name)})
    \cup {[ArchivoQuery(ar, old_name) EXCEPT !.nombre = final_new_name]}

\* A compensation that leaves the blob under its new name
RenameCompensate_Nothing(bl, old_name, final_new_name) == bl

\* The except branch of step 3: os.rename(new_path, old_path)
RenameCompensate(bl, old_name, final_new_name) ==
    rename(bl, final_new_name, old_name)

\* The handler rename_file as a whole.  user is the teacher of the session;
\* the handler does not read it.
rename_file(user, data, failAt) ==
    LET Out(status, reason, final, failed, bl, ar) ==
            [blobs |-> bl, archivos |-> ar,
             resp |-> [op |-> "rename", status |-> status, user |-> user,
                       data |-> data, reason |-> reason,
                       final_new_name |-> final, failed |-> failed]]
    IN
    IF ~data.present THEN Out(400, "no_json", <<>>, "none", blobs, archivos)
    ELSE IF NamesMissing(data.old_name, data.new_name)
    THEN Out(400, "names_missing", <<>>, "none", blobs, archivos)
    ELSE
    LET old_name == data.old_name
        final_new_name == FinalNewName(data.new_name)
        reason == RenamePrecondition(blobs, archivos, old_name, final_new_name)
    IN  IF reason \in {"old_blob_missing", "new_blob_exists"}
        THEN Out(RenameStatusOf(reason), reason, final_new_name, "none",
                 blobs, archivos)
        ELSE IF failAt = "archivo_query"
        THEN Out(500, "error", final_new_name, failAt, blobs, archivos)
        ELSE IF reason = "old_record_missing"
        THEN Out(RenameStatusOf(reason), reason, final_new_name, "none",
                 blobs, archivos)
        ELSE IF failAt = "archivo_query_new"
        THEN Out(500, "error", final_new_name, failAt, blobs, archivos)
        ELSE IF reason # "ok"
        THEN Out(RenameStatusOf(reason), reason, final_new_name, "none",
                 blobs, archivos)
        ELSE IF failAt = "os_rename"
        THEN Out(500, "error", final_new_name, failAt, blobs, archivos)
        ELSE IF failAt = "commit"
        THEN Out(500, "error", final_new_name, failAt,
                 RenameCompensate(rename(blobs, old_name, final_new_name),
                                  old_name, final_new_name),
                 archivos)
        ELSE Out(200, "ok", final_new_name, "none",
                 rename(blobs, old_name, final_new_name),
                 RenameArchivo(archivos, old_name, final_new_name))

\* ------------------------------------------------------- the requests

APdf == <<"a", ".", "p", "d", "f">>

NoFile == [present |-> FALSE, filename |-> <<>>, content |-> <<>>]

File(filename, content) ==
    [present |-> TRUE, filename |-> filename, content |-> content]

\* The files a client sends with an upload: none, one with an empty name,
\* ------------------------------------------------------------ list_files

\* The query of list_files before its filter: every Archivo joined to its
\* Docente, its Curso and the Materia of that Curso (inner joins).
ListJoin(ar, ma, cu) ==
    {[nombre |-> a.nombre, fecha_subida |-> a.fecha_subida,
      docente |-> a.docente_id, materia |-> m.nombre, periodo |-> c.periodo] :
        <<a, c, m>> \in {t \in ar \X cu \X ma :
                           /\ t[1].docente_id \in Docentes
                           /\ t[1].curso_id = t[2].id
                           /\ t[2].materia_id = t[3].id}}

\* The filter of a non-empty search: the file name, the subject name or the
\* period is ILIKE %search_query%.
ListFilter(rows, search_query) ==
    IF search_query = <<>> THEN rows
    ELSE LET pattern == <<"%">> \o search_query \o <<"%">>
         IN  {r \in rows : \/ ilike(r.nombre, pattern)
                            \/ ilike(r.materia, pattern)
                            \/ ilike(r.periodo, pattern)}

\* order_by(Archivo.fecha_subida.desc()): the rows as a sequence, latest
\* first.
RECURSIVE OrderDesc(_)
OrderDesc(rows) ==
    IF rows = {} THEN <<>>
    ELSE LET r == CHOOSE x \in rows : \A y \in rows : y.fecha_subida <= x.fecha_subida
         IN  <<r>> \o OrderDesc(rows \ {r})

\* A listing that does not look into the folder
KeepBlobBacked_All(rows, bl) == rows

\* The loop over query.all(): a row is kept when its file is in the folder.
KeepBlobBacked(rows, bl) == SelectSeq(rows, LAMBDA r : exists(bl, r.nombre))

\* The handler list_files as a whole.  The rows carry the time of upload
\* itself; the response formats it to the minute.
list_files(search) ==
    LET search_query == lower(search)
        files_list == KeepBlobBacked(
                          OrderDesc(ListFilter(ListJoin(archivos, materias, cursos),
                                               search_query)),
                          blobs)
    IN  [resp |-> [op |-> "list", status |-> 200, search |-> search,
                   files_list |-> files_list]]

\* a plain name, the same name behind a path separator and with other
\* bytes, and a name that sanitizes to nothing.
Files ==
    {NoFile, File(<<>>, <<1>>), File(APdf, <<2>>), File(<<"/">> \o APdf, <<1>>),
     File(<<".", ".">>, <<1>>)}

\* The subject field: absent, a name, whitespace only.
MateriaInputs == {None, <<"m">>, <<" ", " ">>}

\* The period field: empty, a label followed by a space.
PeriodoInputs == {<<>>, <<"1", " ">>}

\* The names under which the handlers can store a blob.
StoreNames == {APdf, <<"b">> \o PdfExt}

\* The names a client asks to delete: the stored ones and one that was never
\* sanitized.
RequestNames == StoreNames \cup {<<"/">> \o APdf}

NewNameInputs == {None, <<"b">>, APdf}

NoData == [present |-> FALSE, old_name |-> None, new_name |-> None]

RenameData ==
    {NoData} \cup {[present |-> TRUE, old_name |-> o, new_name |-> n] :
                     o \in StoreNames \cup {None}, n \in NewNameInputs}

\* The search parameter: none, part of a file name in upper case, a subject
\* name in upper case, the character secure_filename joins words with.
SearchInputs == {<<>>, <<"A">>, <<"M">>, <<"_">>}

\* No request is being served.
NoResp == [op |-> "none"]

\* No request is under way step by step.
NoReqs == <<>>

Init ==
    /\ blobs = NoBlobs
    /\ materias = {}
    /\ cursos = {}
    /\ archivos = {}
    /\ now = 1
    /\ resp = NoResp
    /\ reqs = NoReqs

\* POST /files/upload.  A failure is drawn only for a request that enters
\* the try block.
Upload ==
    /\ resp = NoResp
    /\ now <= MaxTime
    /\ UNCHANGED reqs
    /\ \E user \in Docentes, file \in Files, materia_raw \in MateriaInputs,
          periodo_raw \in PeriodoInputs :
        \E failAt \in IF FileMissing(file) \/ FieldsMissing(materia_raw, periodo_raw)
                      THEN {"none"} ELSE UploadFailPoints :
          LET r == upload(user, file, materia_raw, periodo_raw, failAt)
          IN  /\ blobs' = r.blobs
              /\ materias' = r.materias
              /\ cursos' = r.cursos
              /\ archivos' = r.archivos
              /\ now' = r.now
              /\ resp' = r.resp

\* DELETE /files/delete/<filename>
Delete ==
    /\ resp = NoResp
    /\ UNCHANGED reqs
    /\ \E filename \in RequestNames, failAt \in DeleteFailPoints :
          LET r == delete_file(filename, failAt)
          IN  /\ blobs' = r.blobs
              /\ archivos' = r.archivos
              /\ resp' = r.resp
              /\ UNCHANGED <<materias, cursos, now>>

\* PUT /files/rename.  A failure is drawn only for a request that passes
\* the checks of its JSON body.
Rename ==
    /\ resp = NoResp
    /\ UNCHANGED reqs
    /\ \E user \in Docentes, data \in RenameData :
        \E failAt \in IF ~data.present \/ NamesMissing(data.old_name, data.new_name)
                      THEN {"none"} ELSE RenameFailPoints :
          LET r == rename_file(user, data, failAt)
          IN  /\ blobs' = r.blobs
              /\ archivos' = r.archivos
              /\ resp' = r.resp
              /\ UNCHANGED <<materias, cursos, now>>

\* GET /files/list
List ==
    /\ resp = NoResp
    /\ UNCHANGED reqs
    /\ \E search \in SearchInputs :
        /\ resp' = list_files(search).resp
        /\ UNCHANGED <<blobs, materias, cursos, archivos, now>>

\* A file of UPLOAD_FOLDER is removed by something other than the handlers.
OutOfBandRemove ==
    /\ resp = NoResp
    /\ UNCHANGED reqs
    /\ \E f \in DOMAIN blobs :
        /\ blobs' = remove(blobs, f)
        /\ UNCHANGED <<materias, cursos, archivos, now, resp>>

\* A file is put into UPLOAD_FOLDER by something other than the handlers
\* (the directory may hold files the Metadata Store does not know).
OutOfBandWrite ==
    /\ resp = NoResp
    /\ UNCHANGED reqs
    /\ \E f \in StoreNames :
        /\ blobs' = FileSave(blobs, f, <<1>>)
        /\ UNCHANGED <<materias, cursos, archivos, now, resp>>

\* The response is sent; the next request is then served (requests are
\* handled one at a time, each to completion).
Respond ==
    /\ resp # NoResp
    /\ resp' = NoResp
    /\ UNCHANGED <<blobs, materias, cursos, archivos, now, reqs>>

Next ==
    \/ Upload
    \/ Delete
    \/ Rename
    \/ List
    \/ OutOfBandRemove
    \/ OutOfBandWrite
    \/ Respond

Spec == Init /\ [][Next]_vars

\* ------------------------------------------- two uploads, step by step

\* Two uploads of one file name are served at once: request p comes from
\* teacher p, carries the payload <<p>> and names the subject and the period
\* of the course p.  reqs[p] is the place of request p in upload, the row its
\* lookup found, the time it read and the status it returned.
RaceRequests == {1, 2}

RaceName == APdf

\* The file name of a FileRecord is unique in the Metadata Store: a row
\* cannot be inserted while another row has its name.
NombreTaken(ar, nombre) == \E a \in ar : a.nombre = nombre

\* The subject and both courses are there from earlier uploads; the file
\* name has a record or not, and a blob or not.
InitRace ==
    /\ materias = {[id |-> 1, nombre |-> <<"m">>]}
    /\ cursos = {[id |-> p, docente_id |-> p, materia_id |-> 1, periodo |-> <<"1">>] :
                    p \in RaceRequests}
    /\ \E had_record, had_blob \in BOOLEAN :
        /\ archivos = IF had_record
                      THEN {[id |-> 1, nombre |-> RaceName, fecha_subida |-> 1,
                             docente_id |-> 1, curso_id |-> 1]}
                      ELSE {}
        /\ blobs = IF had_blob THEN FileSave(NoBlobs, RaceName, <<1>>) ELSE NoBlobs
    /\ now = 2
    /\ resp = NoResp
    /\ reqs = [p \in RaceRequests |->
                 [pc |-> "received", existente |-> 0, fecha_subida |-> 0, status |-> 0]]

\* 4: file.save(filepath), after the subject and the course were found
RaceSave(p) ==
    /\ reqs[p].pc = "received"
    /\ blobs' = FileSave(blobs, RaceName, <<p>>)
    /\ reqs' = [reqs EXCEPT ![p].pc = "saved"]
    /\ UNCHANGED <<materias, cursos, archivos, now, resp>>

\* 5: Archivo.query.filter_by(nombre=filename).first() sees the rows that
\* are committed
RaceLookup(p) ==
    /\ reqs[p].pc = "saved"
    /\ reqs' = [reqs EXCEPT ![p].pc = "looked",
                            ![p].existente = ArchivoQuery(archivos, RaceName).id]
    /\ UNCHANGED <<blobs, materias, cursos, archivos, now, resp>>

\* The row found is changed, or a new row is added, in the session of the
\* request; datetime.utcnow() is read.
RaceStage(p) ==
    /\ reqs[p].pc = "looked"
    /\ reqs' = [reqs EXCEPT ![p].pc = "staged", ![p].fecha_subida = now]
    /\ now' = now + 1
    /\ UNCHANGED <<blobs, materias, cursos, archivos, resp>>

\* db.session.commit(): the UPDATE of the row found, or the INSERT of the new
\* row, which raises IntegrityError when the name has been taken since the
\* lookup.  A commit that goes through returns the message.
RaceCommit(p) ==
    /\ reqs[p].pc = "staged"
    /\ LET found == {a \in archivos : a.id = reqs[p].existente}
           raises == IF reqs[p].existente = 0
                     THEN NombreTaken(archivos, RaceName)
                     ELSE found = {}
       IN  IF raises
           THEN /\ reqs' = [reqs EXCEPT ![p].pc = "raised"]
                /\ UNCHANGED archivos
           ELSE /\ archivos' =
                      IF reqs[p].existente = 0
                      THEN archivos \cup {[id |-> NextId(archivos), nombre |-> RaceName,
                                           fecha_subida |-> reqs[p].fecha_subida,
                                           docente_id |-> p, curso_id |-> p]}
                      ELSE (archivos \ found)
                           \cup {[a EXCEPT !.fecha_subida = reqs[p].fecha_subida,
                                           !.docente_id = p, !.curso_id = p] :
                                   a \in found}
                /\ reqs' = [reqs EXCEPT ![p].pc = "returned", ![p].status = 200]
    /\ UNCHANGED <<blobs, materias, cursos, now, resp>>

\* The except branch: rollback, removal of the file at filepath, 500.
RaceCleanup(p) ==
    /\ reqs[p].pc = "raised"
    /\ blobs' = UploadCleanup(blobs, RaceName)
    /\ reqs' = [reqs EXCEPT ![p].pc = "returned", ![p].status = 500]
    /\ UNCHANGED <<materias, cursos, archivos, now, resp>>

NextRace ==
    \E p \in RaceRequests :
        \/ RaceSave(p)
        \/ RaceLookup(p)
        \/ RaceStage(p)
        \/ RaceCommit(p)
        \/ RaceCleanup(p)

SpecRace == InitRace /\ [][NextRace]_vars

\* ---------------------------------------------------------- properties

\* The file names that have a FileRecord.
RecordNames(ar) == {a.nombre : a \in ar}

\* The FileRecords of one file name.
RecordsOf(ar, f) == {a \in ar : a.nombre = f}

\* C1: every upload that returns success leaves exactly one FileRecord with
\* the sanitized filename and a blob of that name holding the payload,
\* whatever uploads, deletes and renames came before.
C1_UploadStoresRecordAndBlob ==
    (resp.op = "upload" /\ resp.status = 200) =>
        /\ Cardinality(RecordsOf(archivos, secure_filename(resp.file.filename))) = 1
        /\ exists(blobs, secure_filename(resp.file.filename))
        /\ blobs[secure_filename(resp.file.filename)] = resp.file.content

\* A successful upload over an existing record and blob, under a name that
\* sanitizing changed.
C1_Witness ==
    /\ resp.op = "upload"
    /\ resp.status = 200
    /\ resp.existed
    /\ resp.file.filename # secure_filename(resp.file.filename)
    /\ now = MaxTime + 1

\* An upload of `file` under the same fields as the request just answered,
\* with no failure.
Retry == upload(resp.user, resp.file, resp.materia_raw, resp.periodo_raw, "none")

\* The request just answered is an upload that failed at a metadata step
\* after file.save had written the blob.
FailedAfterWrite(r) ==
    r.op = "upload" /\ r.failed \in {"archivo_query", "commit"}

\* C2: when a metadata step of upload fails after the blob was written, at
\* the return no blob of that name exists and the Subject, Course and
\* FileRecord tables are as before the request; the same upload sent again
\* then succeeds, leaving one record and the blob.
C2_FailedUploadLeavesNoBlob ==
    /\ [][FailedAfterWrite(resp') =>
            /\ materias' = materias
            /\ cursos' = cursos
            /\ archivos' = archivos]_vars
    /\ [](FailedAfterWrite(resp) =>
            /\ resp.status = 500
            /\ ~exists(blobs, resp.filename)
            /\ Retry.resp.status = 200
            /\ exists(Retry.blobs, resp.filename)
            /\ Cardinality(RecordsOf(Retry.archivos, resp.filename)) = 1)

\* An upload that failed at the commit, after the blob was written and with
\* a new Subject and a new FileRecord in the session.
C2_Witness ==
    /\ resp.op = "upload"
    /\ resp.failed = "commit"
    /\ resp.written
    /\ ~resp.existed
    /\ MateriaQuery(materias, strip(resp.materia_raw)).id = 0

\* The upload just answered was a re-upload: before it, the name had a
\* FileRecord and a blob.
ReUpload(ar, bl, r) ==
    RecordsOf(ar, r.filename) # {} /\ exists(bl, r.filename)

\* C3: an upload that fails after the blob was written restores both stores
\* to their state before the request, stated for the case the claim names:
\* the name already had a blob and a record.
C3_FailedReUploadRestoresStores ==
    [][(FailedAfterWrite(resp') /\ ReUpload(archivos, blobs, resp')) =>
          /\ blobs' = blobs
          /\ archivos' = archivos]_vars

\* Every file name has a FileRecord if and only if it has a blob.
Consistent(bl, ar) == RecordNames(ar) = DOMAIN bl

Requests == {"upload", "delete", "rename"}

\* C4: from a state where every name has a record iff it has a blob, an
\* upload, delete or rename that ends in an error leaves such a state.
C4_ErrorsKeepStoresInStep ==
    [][(/\ Consistent(blobs, archivos)
        /\ resp'.op \in Requests
        /\ resp'.status \in {400, 404, 500}) =>
          Consistent(blobs', archivos')]_vars

\* C5: from a state where the record names and the blob names coincide,
\* after every upload, delete or rename that returns a success status the
\* record names and the blob names coincide.
C5_SuccessKeepsStoresInStep ==
    [][(/\ Consistent(blobs, archivos)
        /\ resp'.op \in Requests
        /\ resp'.status \in {200, 202}) =>
          Consistent(blobs', archivos')]_vars

\* A successful rename of a file uploaded twice, names coinciding.
C5_Witness ==
    /\ resp.op = "rename"
    /\ resp.status = 200
    /\ now = MaxTime + 1
    /\ archivos # {}
    /\ Consistent(blobs, archivos)

\* The inputs the upload contract refuses: payload or filename missing or
\* empty, subject or period missing or empty once trimmed.
InvalidUpload(file, materia_raw, periodo_raw) ==
    \/ ~file.present
    \/ file.filename = <<>>
    \/ file.content = <<>>
    \/ materia_raw = None
    \/ periodo_raw = None
    \/ strip(materia_raw) = <<>>
    \/ strip(periodo_raw) = <<>>

\* C6: an upload with payload or filename missing or empty, or with subject
\* or period empty after trimming, is rejected with a client error and
\* changes neither store.
C6_InvalidUploadRejected ==
    [][(/\ resp'.op = "upload"
        /\ InvalidUpload(resp'.file, resp'.materia_raw, resp'.periodo_raw)) =>
          /\ resp'.status = 400
          /\ UNCHANGED <<blobs, materias, cursos, archivos>>]_vars

\* The Courses of a teacher, a subject name and a period.
CoursesOf(ma, cu, user, nombre, periodo) ==
    {c \in cu : /\ c.docente_id = user
                /\ c.periodo = periodo
                /\ \E m \in ma : m.id = c.materia_id /\ m.nombre = nombre}

\* No two Subjects of one name, no two Courses of one triple.
OneCoursePerTriple(ma, cu) ==
    /\ \A m1, m2 \in ma : m1.nombre = m2.nombre => m1 = m2
    /\ \A c1, c2 \in cu :
         (/\ c1.docente_id = c2.docente_id
          /\ c1.materia_id = c2.materia_id
          /\ c1.periodo = c2.periodo) => c1 = c2

\* C7: after every upload, successful or failed, there is at most one Course
\* per (teacher, subject, period); an upload whose triple has a Course adds
\* none, and a successful upload leaves exactly one Course for its triple.
C7_OneCoursePerTriple ==
    [][resp'.op = "upload" =>
         /\ OneCoursePerTriple(materias', cursos')
         /\ (CoursesOf(materias, cursos, resp'.user, strip(resp'.materia_raw),
                       strip(resp'.periodo_raw)) # {} => cursos' = cursos)
         /\ (resp'.status = 200 =>
               Cardinality(CoursesOf(materias', cursos', resp'.user,
                                     strip(resp'.materia_raw),
                                     strip(resp'.periodo_raw))) = 1)]_vars

\* The second of two successful uploads of different files under one triple.
C7_Witness ==
    /\ resp.op = "upload"
    /\ resp.status = 200
    /\ Cardinality(archivos) = 2
    /\ Cardinality(cursos) = 1
    /\ \A a \in archivos : a.docente_id = resp.user /\ a.curso_id = resp.curso_id

\* C8: a successful upload of a name that has a FileRecord adds no record:
\* the name keeps one record, the same row, whose timestamp, teacher and
\* course are the time of this upload, its uploader and its Course.
C8_ReUploadRefreshesRecord ==
    [][(/\ resp'.op = "upload"
        /\ resp'.status = 200
        /\ RecordsOf(archivos, resp'.filename) # {}) =>
          /\ Cardinality(RecordsOf(archivos, resp'.filename)) = 1
          /\ Cardinality(RecordsOf(archivos', resp'.filename)) = 1
          /\ Cardinality(archivos') = Cardinality(archivos)
          /\ \A a \in RecordsOf(archivos', resp'.filename) :
               /\ a.id = ArchivoQuery(archivos, resp'.filename).id
               /\ a.fecha_subida = now
               /\ a.fecha_subida > ArchivoQuery(archivos, resp'.filename).fecha_subida
               /\ a.docente_id = resp'.user
               /\ a.curso_id \in
                    {c.id : c \in CoursesOf(materias', cursos', resp'.user,
                                            strip(resp'.materia_raw),
                                            strip(resp'.periodo_raw))}]_vars

\* A successful re-upload by the second teacher, under a Course created by
\* this very upload.
C8_Witness ==
    /\ resp.op = "upload"
    /\ resp.status = 200
    /\ resp.existed
    /\ resp.user = 2
    /\ resp.curso_id = 2
    /\ Cardinality(archivos) = 1

\* C9: once delete has returned, the name has neither a FileRecord nor a
\* blob, and the status follows from the blob alone: 200 when it existed at
\* the call, with or without a record, 202 when it did not.
C9_DeleteRemovesBoth ==
    [][(resp'.op = "delete" /\ resp'.status # 500) =>
          /\ RecordsOf(archivos', resp'.filename) = {}
          /\ ~exists(blobs', resp'.filename)
          /\ (exists(blobs, resp'.filename) => resp'.status = 200)
          /\ (~exists(blobs, resp'.filename) => resp'.status = 202)]_vars

\* A delete that found the record but no blob.
C9_Witness ==
    /\ resp.op = "delete"
    /\ resp.status = 202
    /\ resp.hadRecord
    /\ ~resp.hadBlob

\* The delete just answered found neither a record nor a blob, and no
\* lookup raised.
DeleteOfNothing(ar, bl, r) ==
    /\ r.op = "delete"
    /\ r.failed = "none"
    /\ RecordsOf(ar, r.filename) = {}
    /\ ~exists(bl, r.filename)

\* C10 as stated: a delete that finds neither a record nor a blob returns a
\* not-found outcome, which is neither full nor partial success, and changes
\* neither store.
C10_DeleteOfNothingNotFound ==
    [][DeleteOfNothing(archivos, blobs, resp') =>
          /\ resp'.status \notin {200, 202}
          /\ UNCHANGED <<blobs, materias, cursos, archivos>>]_vars

\* C10 as amended: a delete that finds neither a record nor a blob returns
\* the partial-success status 202, the one of a record without blob, and
\* changes neither store.
C10_DeleteOfNothingPartial ==
    [][DeleteOfNothing(archivos, blobs, resp') =>
          /\ resp'.status = 202
          /\ UNCHANGED <<blobs, materias, cursos, archivos>>]_vars

\* A delete of a name that is not stored, with other files stored.
C10_Witness ==
    /\ resp.op = "delete"
    /\ resp.status = 202
    /\ ~resp.hadRecord
    /\ ~resp.hadBlob
    /\ archivos # {}
    /\ DOMAIN blobs # {}

\* The rename just answered carried both names and met a failed
\* precondition: old blob or old record missing, or the final new name taken
\* by a blob or by a record.
RenameBlocked(bl, ar, r) ==
    /\ r.op = "rename"
    /\ r.data.present
    /\ ~NamesMissing(r.data.old_name, r.data.new_name)
    /\ \/ ~exists(bl, r.data.old_name)
       \/ RecordsOf(ar, r.data.old_name) = {}
       \/ exists(bl, r.final_new_name)
       \/ RecordsOf(ar, r.final_new_name) # {}

\* C11: a rename whose final new name exists as a blob or as a record, or
\* whose old blob or old record is missing, fails and changes nothing: the
\* Blob Store and every FileRecord are as before the call.
C11_BlockedRenameChangesNothing ==
    [][RenameBlocked(blobs, archivos, resp') =>
          /\ resp'.status \in {400, 404, 500}
          /\ UNCHANGED <<blobs, materias, cursos, archivos>>]_vars

\* A rename refused because the new name is taken by a blob, the old blob
\* and its record being there.
C11_Witness ==
    /\ resp.op = "rename"
    /\ resp.status = 400
    /\ resp.reason = "new_blob_exists"
    /\ exists(blobs, resp.data.old_name)
    /\ RecordsOf(archivos, resp.data.old_name) # {}
    /\ RecordsOf(archivos, resp.final_new_name) = {}

\* The rename just answered went through: blob and record are both under
\* the final new name and no longer under the old one.
BothRenamed(bl, ar, bl2, ar2, r) ==
    /\ ~exists(bl2, r.data.old_name)
    /\ exists(bl2, r.final_new_name)
    /\ RecordsOf(ar2, r.data.old_name) = {}
    /\ RecordsOf(ar2, r.final_new_name) # {}

\* C12: when the commit of a rename fails after the physical rename, the
\* error is returned with the blob back under its old name, no blob under
\* the new name and the record under its old name; every rename leaves both
\* sides renamed or neither.
C12_RenameIsAllOrNothing ==
    [][resp'.op = "rename" =>
          /\ (resp'.failed = "commit" =>
                /\ resp'.status = 500
                /\ exists(blobs', resp'.data.old_name)
                /\ ~exists(blobs', resp'.final_new_name)
                /\ RecordsOf(archivos', resp'.data.old_name) # {}
                /\ RecordsOf(archivos', resp'.final_new_name) = {})
          /\ \/ blobs' = blobs /\ archivos' = archivos
             \/ BothRenamed(blobs, archivos, blobs', archivos', resp')]_vars

\* A rename that failed at its commit.
C12_Witness ==
    /\ resp.op = "rename"
    /\ resp.failed = "commit"
    /\ exists(blobs, resp.data.old_name)
    /\ RecordsOf(archivos, resp.data.old_name) # {}

\* The final name the rename contract asks for: the sanitized new name, with
\* the document extension appended when it has none.
ExpectedNewName(new_name_raw) ==
    IF endswith(lower(secure_filename(new_name_raw)), PdfExt)
    THEN secure_filename(new_name_raw)
    ELSE secure_filename(new_name_raw) \o PdfExt

\* C13: a rename whose preconditions hold and whose steps do not fail ends
\* with a blob and a record under the final new name and none under the old
\* name; the bytes of the blob and the number of records are unchanged.
C13_RenameMovesBlobAndRecord ==
    [][(resp'.op = "rename" /\ resp'.status = 200) =>
          /\ ~exists(blobs', resp'.data.old_name)
          /\ RecordsOf(archivos', resp'.data.old_name) = {}
          /\ exists(blobs', ExpectedNewName(resp'.data.new_name))
          /\ blobs'[ExpectedNewName(resp'.data.new_name)] = blobs[resp'.data.old_name]
          /\ Cardinality(RecordsOf(archivos', ExpectedNewName(resp'.data.new_name))) = 1
          /\ Cardinality(archivos') = Cardinality(archivos)
          /\ DOMAIN blobs' = (DOMAIN blobs \ {resp'.data.old_name})
                               \cup {ExpectedNewName(resp'.data.new_name)}]_vars

\* A successful rename to a name given without extension.
C13_Witness ==
    /\ resp.op = "rename"
    /\ resp.status = 200
    /\ resp.data.new_name = <<"b">>
    /\ exists(blobs, <<"b">> \o PdfExt)
    /\ RecordsOf(archivos, <<"b">> \o PdfExt) # {}

\* str.__contains__: q occurs in s
Contains(s, q) ==
    \E i \in 0..Len(s) : i + Len(q) <= Len(s) /\ SubSeq(s, i + 1, i + Len(q)) = q

\* The names of the subject and of the period of a record
SubjectOf(ma, cu, a) ==
    {m.nombre : m \in {x \in ma : \E c \in cu : c.id = a.curso_id /\ c.materia_id = x.id}}

PeriodOf(cu, a) == {c.periodo : c \in {x \in cu : x.id = a.curso_id}}

\* The record matches the search: without a query every record does, with
\* one its file name, subject name or period contains it, whatever the case.
Matches(ma, cu, a, q) ==
    \/ q = <<>>
    \/ Contains(lower(a.nombre), lower(q))
    \/ \E n \in SubjectOf(ma, cu, a) : Contains(lower(n), lower(q))
    \/ \E n \in PeriodOf(cu, a) : Contains(lower(n), lower(q))

\* The file names of a listing
Listed(files_list) == {files_list[i].nombre : i \in 1..Len(files_list)}

\* C14: a listing never holds a record whose blob is absent, holds every
\* matching record whose blob is present, and changes nothing: the dangling
\* record stays in the Metadata Store.
C14_ListSkipsDanglingRecords ==
    [][resp'.op = "list" =>
          /\ \A f \in Listed(resp'.files_list) : exists(blobs, f)
          /\ \A a \in archivos :
                (Matches(materias, cursos, a, resp'.search) /\ exists(blobs, a.nombre))
                    => a.nombre \in Listed(resp'.files_list)
          /\ UNCHANGED <<blobs, materias, cursos, archivos, now>>]_vars

\* A listing made while one record has its blob and another one has not.
C14_Witness ==
    /\ resp.op = "list"
    /\ Len(resp.files_list) = 1
    /\ \E a \in archivos : ~exists(blobs, a.nombre)
    /\ \E a \in archivos : a.nombre \in Listed(resp.files_list)

\* C15: a listing with a query holds exactly the blob-backed records whose
\* file name, subject name or period contains the query, whatever the case;
\* with or without a query it is ordered by time of upload, latest first.
C15_ListIsExactAndOrdered ==
    [][resp'.op = "list" =>
          /\ resp'.search # <<>> =>
                Listed(resp'.files_list) =
                    {a.nombre : a \in {x \in archivos :
                                        /\ Matches(materias, cursos, x, resp'.search)
                                        /\ exists(blobs, x.nombre)}}
          /\ \A i, j \in 1..Len(resp'.files_list) :
                i < j => resp'.files_list[i].fecha_subida
                           >= resp'.files_list[j].fecha_subida]_vars

\* The rename just answered carried both names and none of its lookups
\* raised.
RenameChecked(r) ==
    /\ r.op = "rename"
    /\ r.data.present
    /\ ~NamesMissing(r.data.old_name, r.data.new_name)
    /\ r.failed \notin {"archivo_query", "archivo_query_new"}

\* C16: rename checks that the old blob exists, that no blob has the new
\* name, that the old record exists and that no record has the new name, in
\* this order, and reports the first check that fails with its own reason
\* (404, 400, 404, 400), also when several fail; no file is renamed then.
C16_RenameReportsFirstFailure ==
    [][RenameChecked(resp') =>
          LET old == resp'.data.old_name
              new == resp'.final_new_name
          IN  /\ ~exists(blobs, old) =>
                    resp'.reason = "old_blob_missing" /\ resp'.status = 404
              /\ (exists(blobs, old) /\ exists(blobs, new)) =>
                    resp'.reason = "new_blob_exists" /\ resp'.status = 400
              /\ (exists(blobs, old) /\ ~exists(blobs, new)
                  /\ RecordsOf(archivos, old) = {}) =>
                    resp'.reason = "old_record_missing" /\ resp'.status = 404
              /\ (exists(blobs, old) /\ ~exists(blobs, new)
                  /\ RecordsOf(archivos, old) # {} /\ RecordsOf(archivos, new) # {}) =>
                    resp'.reason = "new_record_exists" /\ resp'.status = 400
              /\ resp'.reason \in {"old_blob_missing", "new_blob_exists",
                                   "old_record_missing", "new_record_exists"}
                    => blobs' = blobs]_vars

\* A rename refused for its missing old blob while the new name is taken by
\* a record and the old record is missing too.
C16_Witness ==
    /\ resp.op = "rename"
    /\ resp.reason = "old_blob_missing"
    /\ resp.status = 404
    /\ RecordsOf(archivos, resp.data.old_name) = {}
    /\ RecordsOf(archivos, resp.final_new_name) # {}

\* Every record references one teacher and exactly one course.
RecordsReferenceCourseAndTeacher ==
    \A a \in archivos :
        /\ a.docente_id \in Docentes
        /\ Cardinality({c \in cursos : c.id = a.curso_id}) = 1

\* C17 as stated: every record references exactly one course and one teacher,
\* the teacher who last uploaded or renamed the file; after a successful
\* rename by a teacher the record belongs to that teacher.
C17_OwnerIsLastUploaderOrRenamer ==
    /\ []RecordsReferenceCourseAndTeacher
    /\ [][/\ (resp'.op = "upload" /\ resp'.status = 200) =>
                \A a \in RecordsOf(archivos', resp'.filename) :
                    a.docente_id = resp'.user
          /\ (resp'.op = "rename" /\ resp'.status = 200) =>
                \A a \in RecordsOf(archivos', resp'.final_new_name) :
                    a.docente_id = resp'.user]_vars

\* C17 amended: every record references exactly one course and one teacher,
\* the teacher who last uploaded the file; a rename, whoever asks for it,
\* leaves the teacher and the course of the record as they were, and no other
\* step changes them.
C17_OwnerIsLastUploader ==
    /\ []RecordsReferenceCourseAndTeacher
    /\ [][/\ (resp'.op = "upload" /\ resp'.status = 200) =>
                \A a \in RecordsOf(archivos', resp'.filename) :
                    a.docente_id = resp'.user
          /\ (resp'.op = "rename" /\ resp'.status = 200) =>
                \A a \in RecordsOf(archivos, resp'.data.old_name) :
                    \E b \in RecordsOf(archivos', resp'.final_new_name) :
                        /\ b.id = a.id
                        /\ b.docente_id = a.docente_id
                        /\ b.curso_id = a.curso_id
          /\ ~(resp'.op = "upload" /\ resp'.status = 200) =>
                \A a \in archivos, b \in archivos' :
                    a.id = b.id => /\ b.docente_id = a.docente_id
                                   /\ b.curso_id = a.curso_id]_vars

\* A teacher has renamed a file that another teacher uploaded.
C17_Witness ==
    /\ resp.op = "rename"
    /\ resp.status = 200
    /\ \E a \in RecordsOf(archivos, resp.final_new_name) : a.docente_id # resp.user

\* The steps of upload that come before file.save
BeforeBlobWrite == {"materia_query", "materia_flush", "curso_query", "curso_flush"}

\* C18: an upload that fails while it resolves the subject or the course,
\* before the blob is written, leaves the Blob Store unchanged: a blob of
\* that name stored by an earlier upload is still there with its content.
C18_EarlyFailureKeepsBlobs ==
    [][(/\ resp'.op = "upload"
        /\ resp'.failed \in BeforeBlobWrite
        /\ RecordsOf(archivos, resp'.filename) # {}
        /\ exists(blobs, resp'.filename)) =>
          /\ resp'.status = 500
          /\ blobs' = blobs]_vars

\* C19: two uploads of one file name interleave step by step (blob write,
\* record lookup, insert or update, commit, removal of the blob on the error
\* path); once both have returned, every request that returned success has
\* exactly one record of that name and a blob under it.
C19_RacingUploadsStayBacked ==
    (\A p \in RaceRequests : reqs[p].pc = "returned") =>
        \A p \in RaceRequests :
            reqs[p].status = 200 =>
                /\ Cardinality(RecordsOf(archivos, RaceName)) = 1
                /\ exists(blobs, RaceName)

====
